---- MODULE Spec2Model ----
(***************************************************************************)
(* The search orchestrator of the movie dashboard                          *)
(* (src/src/app/features/movie-dashboard/movie-dashboard.ts) and the       *)
(* provider client it calls (src/src/app/services/openai.service.ts).      *)
(*                                                                         *)
(* One action is one task of the browser's event loop: a user event with   *)
(* the run of aiEffect it triggers, the firing of the debounce timer, or   *)
(* the settling of one network call with its then/catch/finally chain.     *)
(* The effect is flushed by the change detection that follows the event    *)
(* handler, before any timer or network callback can run, and the promise  *)
(* callbacks of one settled call run as consecutive microtasks, so no      *)
(* other task of the component observes the states in between.             *)
(***************************************************************************)
EXTENDS Integers, Sequences, FiniteSets, TLC

\* ---------------------------------------------------------------- bounds
\* Longest text the user types.
MaxLen == 3
\* Network calls that are started and not yet settled.
MaxInFlight == 2
\* Longest recommendations array the provider sends back.
MaxRecs == 2
\* How many entries of the moods list the user picks from.
NumMoods == 2
\* How many times the user acts in a session that comes to rest.
MaxInputs == 2

\* ------------------------------------------------------------ null values
\* null of a string-valued signal (aiError, selectedMood).
Null == "null"
\* null of the activeRequest and debounceHandle fields.
NoRef == 0

\* ------------------------------------------------------------------ text
\* A text is a sequence of characters.
Chars == {" ", "a"}

Texts == UNION {[1..n -> Chars] : n \in 0..MaxLen}

RECURSIVE TrimStart(_)
TrimStart(s) == IF s # <<>> /\ Head(s) = " " THEN TrimStart(Tail(s)) ELSE s

RECURSIVE TrimEnd(_)
TrimEnd(s) ==
  IF s # <<>> /\ s[Len(s)] = " " THEN TrimEnd(SubSeq(s, 1, Len(s) - 1)) ELSE s

\* String.prototype.trim
trim(s) == TrimEnd(TrimStart(s))

\* OPENAI_API_KEY is fixed by the build: absent (''), blank or set.
Keys == {<<>>, <<" ">>, <<"a">>}

moods ==
  << "Energetic", "High-Octane Action", "Mind-Bending", "Calm & Cozy",
     "Family Night", "Sci-Fi Escape", "Nostalgic" >>

MoodTags == {moods[i] : i \in 1..NumMoods}

\* --------------------------------------------------------------- messages
MissingKeyMessage == "Please provide a valid OpenAI key in the OPENAI_API_KEY constant."
NoResultsMessage == "No results matched this prompt. Try expanding your description."
FallbackMessage == "Something went wrong while fetching OpenAI suggestions."
QuotaMessage == "Your OpenAI key has no remaining quota. Please review your plan or switch keys."
UnexpectedFormatMessage == "OpenAI returned an unexpected response format."

VARIABLES
  OPENAI_API_KEY,   \* the configured credential
  searchTerm,       \* signal: the query text
  selectedMood,     \* signal: a mood tag or Null
  aiStatus,         \* signal: "idle" | "loading" | "ready" | "error"
  aiError,          \* signal: a message or Null
  aiSuggestions,    \* signal: the suggestion list
  activeRequest,    \* the AbortController of the active call, or NoRef
  debounceHandle,   \* the id setTimeout returned last, or NoRef
  timers,           \* pending timers: id -> the arguments its callback holds
  requests,         \* unsettled calls: controller -> the state of its signal
  last,             \* history: the task that ran last
  cleared,          \* history: every unsettled call was in flight at a clearSearch()
  live              \* history of a session that comes to rest: the user
                    \* actions left, and the prompt dispatched last

vars ==
  << OPENAI_API_KEY, searchTerm, selectedMood, aiStatus, aiError, aiSuggestions,
     activeRequest, debounceHandle, timers, requests, last, cleared, live >>


\* ------------------------------------------------------ provider client
\* undefined of an optional string member.
Undefined == "undefined"

\* payload.recommendations.slice(0, 5)
SliceLimit == 5

\* The longest array the provider is seen to send: one record past the slice.
MaxListed == SliceLimit + 1

Min(a, b) == IF a < b THEN a ELSE b

Falsy(x) == x = Undefined \/ x = ""

\* a || b
OrElse(a, b) == IF Falsy(a) THEN b ELSE a

\* Variant: the left operand is never looked at.
Coalesce_right(a, b) == b

\* a ?? b
Coalesce(a, b) == IF a = Undefined THEN b ELSE a

\* An optional member of a suggestion: absent, or present with a value.
Absent == << >>

Some(v) == << v >>

\* OpenAiMovieSuggestion with the title alone.
Suggestion(title) ==
  [ title |-> title, year |-> Absent, genres |-> Absent, synopsis |-> Absent,
    runtimeMinutes |-> Absent, whereToWatch |-> Absent, watchReasons |-> Absent,
    moodFit |-> Absent ]

\* The recommendations array the provider sends: n records, in its order.
Recommendations(n) == [i \in 1..n |-> Suggestion(n + 1 - i)]

\* The text of message.content (or of a content part), as JSON.parse sees
\* it: not JSON, JSON without a recommendations array, or JSON with one.
PayloadTexts ==
  { [valid |-> FALSE, isArray |-> FALSE, recommendations |-> <<>>],
    [valid |-> TRUE, isArray |-> FALSE, recommendations |-> <<>>] }
  \cup { [valid |-> TRUE, isArray |-> TRUE, recommendations |-> Recommendations(n)] :
           n \in 0..MaxRecs }

\* choices[0].message.content: absent, a string, or a list of typed parts
\* (here: its first part of type 'text', if it has one, and that part's
\* text, if it has any).
Contents ==
  { [kind |-> "undefined"], [kind |-> "parts", hasTextPart |-> FALSE],
    [kind |-> "parts", hasTextPart |-> TRUE, hasText |-> FALSE] }
  \cup { [kind |-> "string", text |-> p] : p \in PayloadTexts }
  \cup { [kind |-> "parts", hasTextPart |-> TRUE, hasText |-> TRUE, text |-> p] :
           p \in PayloadTexts }

\* The body of a non-success response: whether it can be read, its text,
\* and what JSON.parse makes of it.
ErrorBodies ==
  { [readable |-> FALSE, text |-> "", valid |-> FALSE],
    [readable |-> TRUE, text |-> "", valid |-> FALSE],
    [readable |-> TRUE, text |-> "Bad Gateway", valid |-> FALSE],
    [readable |-> TRUE, text |-> "{}", valid |-> TRUE, hasError |-> FALSE] }
  \cup { [readable |-> TRUE, text |-> "{error}", valid |-> TRUE, hasError |-> TRUE,
          message |-> m, code |-> c, type |-> ty] :
           m \in {Undefined, "", "provider message"},
           c \in {Undefined, "insufficient_quota", "rate_limit_exceeded"},
           ty \in {Undefined, "insufficient_quota"} }

\* What fetch settles with. The AbortError is there for an aborted signal only.
Transports(aborted) ==
  (IF aborted THEN {[type |-> "AbortError"]} ELSE {})
  \cup {[type |-> "TypeError"]}
  \cup {[type |-> "response", ok |-> FALSE, status |-> st, body |-> b] :
          st \in {429}, b \in ErrorBodies}
  \cup {[type |-> "response", ok |-> TRUE, status |-> 200, valid |-> FALSE]}
  \cup {[type |-> "response", ok |-> TRUE, status |-> 200, valid |-> TRUE, content |-> c] :
          c \in Contents}

Resolved(suggestions) == [ok |-> TRUE, suggestions |-> suggestions]

Rejected(class, name, message, code) ==
  [ok |-> FALSE,
   error |-> [class |-> class, name |-> name, isError |-> TRUE,
              message |-> message, code |-> code]]

\* A thrown value that is not an Error object.
NotAnError ==
  [class |-> "string", name |-> Undefined, isError |-> FALSE,
   message |-> Undefined, code |-> Undefined]

\* class OpenAiError extends Error
OpenAiError(message, code) == Rejected("OpenAiError", "OpenAiError", message, code)

\* safeReadJson: the parsed body, or null.
safeReadJson(response) ==
  IF response.body.readable /\ response.body.valid
  THEN [isNull |-> FALSE, hasError |-> response.body.hasError,
        message |-> IF response.body.hasError THEN response.body.message ELSE Undefined,
        code |-> IF response.body.hasError THEN response.body.code ELSE Undefined,
        type |-> IF response.body.hasError THEN response.body.type ELSE Undefined]
  ELSE [isNull |-> TRUE, hasError |-> FALSE, message |-> Undefined,
        code |-> Undefined, type |-> Undefined]

\* Variant: the text of the body is never used.
safeReadText_none(response) == Undefined

\* safeReadText: the text of the body, or null.
safeReadText(response) ==
  IF response.body.readable THEN response.body.text ELSE Undefined

StatusMessage(status) == "OpenAI request failed with status " \o ToString(status) \o "."

\* tryParse: the parsed payload, or null.
tryParse(payload) ==
  IF payload.valid
  THEN [isNull |-> FALSE, isArray |-> payload.isArray,
        recommendations |-> payload.recommendations]
  ELSE [isNull |-> TRUE, isArray |-> FALSE, recommendations |-> <<>>]

NullPayload == [isNull |-> TRUE, isArray |-> FALSE, recommendations |-> <<>>]

\* extractJson(content ?? ''): JSON.parse('') throws, so '' gives null.
extractJson(content) ==
  CASE content.kind = "undefined" -> NullPayload
    [] content.kind = "string" -> tryParse(content.text)
    [] content.kind = "parts" ->
         IF content.hasTextPart /\ content.hasText
         THEN tryParse(content.text)
         ELSE NullPayload

\* suggestMovies, from what fetch settles with to what the promise settles with.
suggestMovies(transport) ==
  CASE transport.type = "AbortError" ->
         Rejected("DOMException", "AbortError", "The user aborted a request.", Undefined)
    [] transport.type = "TypeError" ->
         Rejected("TypeError", "TypeError", "Failed to fetch", Undefined)
    [] transport.type = "response" /\ ~transport.ok ->
         LET details == safeReadJson(transport)
             message == OrElse(details.message,
                          OrElse(safeReadText(transport), StatusMessage(transport.status)))
             code == Coalesce(details.code, details.type)
         IN OpenAiError(message, code)
    [] transport.type = "response" /\ transport.ok ->
         IF ~transport.valid
         THEN Rejected("SyntaxError", "SyntaxError", "Unexpected token", Undefined)
         ELSE LET payload == extractJson(transport.content)
              IN IF payload.isNull \/ ~payload.isArray
                 THEN OpenAiError(UnexpectedFormatMessage, Undefined)
                 ELSE Resolved(SubSeq(payload.recommendations, 1,
                                      Min(SliceLimit, Len(payload.recommendations))))

\* What the promise of suggestMovies can settle with while the signal is
\* not aborted, and what it can settle with once it is.
LiveOutcomes == {suggestMovies(t) : t \in Transports(FALSE)}

AbortedOutcomes == {suggestMovies(t) : t \in Transports(TRUE)}

Outcomes(aborted) == IF aborted THEN AbortedOutcomes ELSE LiveOutcomes

\* ----------------------------------------------------- component fields
\* The fields of the component as one record, so that the statements of a
\* method compose in program order.
Cur ==
  [ searchTerm |-> searchTerm, selectedMood |-> selectedMood,
    aiStatus |-> aiStatus, aiError |-> aiError, aiSuggestions |-> aiSuggestions,
    activeRequest |-> activeRequest, debounceHandle |-> debounceHandle,
    timers |-> timers, requests |-> requests ]

Without(f, k) == [x \in DOMAIN f \ {k} |-> f[x]]

\* A reference no live object holds: the least positive number not in use.
Fresh(used) == CHOOSE i \in 1..(Cardinality(used) + 1) : i \notin used

\* Variant: the threshold off by one.
belowThreshold_offByOne(query) == Len(query) < 1

\* query.length < 2
belowThreshold(query) == Len(query) < 2

\* computed aiPrompt: '' below two characters, else the joined prompt parts.
aiPrompt(s) ==
  LET query == trim(s.searchTerm)
      mood == s.selectedMood
  IN IF belowThreshold(query)
     THEN <<>>
     ELSE << <<"Suggest up to five", query>>, <<"Only return">> >>
          \o (IF mood # Null THEN << <<"Every title", mood>> >> ELSE <<>>)
          \o << <<"Respond strictly">> >>

\* Variant: nothing is canceled.
cancelActiveRequest_noop(s) == s

\* Variant: the slot is emptied and abort() is not called.
cancelActiveRequest_noAbort(s) == [s EXCEPT !.activeRequest = NoRef]

cancelActiveRequest(s) ==
  IF s.activeRequest # NoRef
  THEN [s EXCEPT !.requests[s.activeRequest].aborted = TRUE,
                 !.activeRequest = NoRef]
  ELSE s

clearSearch(s) ==
  cancelActiveRequest(
    [s EXCEPT !.searchTerm = <<>>, !.aiSuggestions = <<>>,
              !.aiStatus = "idle", !.aiError = Null])

\* Variant: a query below the threshold is taken for an empty one.
emptyQuery_short(query) == Len(query) < 2

\* !query
emptyQuery(query) == query = <<>>

\* Variant: the credential is never found missing.
missingKey_never(key) == FALSE

\* !key
missingKey(key) == key = <<>>

\* Variant: the pending timer is left to fire.
clearTimeout_noop(s, handle) == s

\* clearTimeout: a handle of a timer that has fired cancels nothing.
clearTimeout(s, handle) == [s EXCEPT !.timers = Without(@, handle)]

\* Variant: an empty prompt cancels the active request.
scheduleAiFetch_cancelOnEmptyPrompt(s, prompt) ==
  LET s1 == IF s.debounceHandle # NoRef
            THEN [clearTimeout(s, s.debounceHandle) EXCEPT !.debounceHandle = NoRef]
            ELSE s
      key == trim(OPENAI_API_KEY)
      query == trim(s1.searchTerm)
  IN IF emptyQuery(query)
     THEN cancelActiveRequest(
            [s1 EXCEPT !.aiSuggestions = <<>>, !.aiStatus = "idle",
                       !.aiError = Null])
     ELSE IF missingKey(key)
     THEN cancelActiveRequest(
            [s1 EXCEPT !.aiStatus = "error", !.aiError = MissingKeyMessage,
                       !.aiSuggestions = <<>>])
     ELSE IF prompt = <<>>
     THEN cancelActiveRequest(s1)
     ELSE LET handle == Fresh(DOMAIN s1.timers)
          IN [s1 EXCEPT !.debounceHandle = handle,
                        !.timers = @ @@ (handle :> [prompt |-> prompt, apiKey |-> key])]

scheduleAiFetch(s, prompt) ==
  LET s1 == IF s.debounceHandle # NoRef
            THEN [clearTimeout(s, s.debounceHandle) EXCEPT !.debounceHandle = NoRef]
            ELSE s
      key == trim(OPENAI_API_KEY)
      query == trim(s1.searchTerm)
  IN IF emptyQuery(query)
     THEN cancelActiveRequest(
            [s1 EXCEPT !.aiSuggestions = <<>>, !.aiStatus = "idle",
                       !.aiError = Null])
     ELSE IF missingKey(key)
     THEN cancelActiveRequest(
            [s1 EXCEPT !.aiStatus = "error", !.aiError = MissingKeyMessage,
                       !.aiSuggestions = <<>>])
     ELSE IF prompt = <<>>
     THEN s1
     ELSE LET handle == Fresh(DOMAIN s1.timers)
          IN [s1 EXCEPT !.debounceHandle = handle,
                        !.timers = @ @@ (handle :> [prompt |-> prompt, apiKey |-> key])]

\* Variant: the effect does not run for a query that has become empty.
aiEffect_notOnEmpty(old, s) ==
  IF s.searchTerm # << >> /\ (s.searchTerm # old.searchTerm \/ aiPrompt(s) # aiPrompt(old))
  THEN scheduleAiFetch(s, aiPrompt(s))
  ELSE s

\* effect(() => scheduleAiFetch(aiPrompt())): it reads aiPrompt and, inside
\* scheduleAiFetch, searchTerm, and runs again when one of the two has changed.
aiEffect(old, s) ==
  IF s.searchTerm # old.searchTerm \/ aiPrompt(s) # aiPrompt(old)
  THEN scheduleAiFetch(s, aiPrompt(s))
  ELSE s

\* Variant: the error of the previous request is left in place.
runOpenAi_keepError(s, prompt, apiKey) ==
  LET s1 == cancelActiveRequest(s)
      controller == Fresh(DOMAIN s1.requests)
  IN [s1 EXCEPT !.aiStatus = "loading",
                !.activeRequest = controller,
                !.requests = @ @@ (controller :> [aborted |-> FALSE])]

runOpenAi(s, prompt, apiKey) ==
  LET s1 == cancelActiveRequest(s)
      controller == Fresh(DOMAIN s1.requests)
  IN [s1 EXCEPT !.aiStatus = "loading", !.aiError = Null,
                !.activeRequest = controller,
                !.requests = @ @@ (controller :> [aborted |-> FALSE])]

\* Variant: every call is taken for a superseded one.
superseded_always(s, controller) == TRUE

\* Variant: no call is ever taken for a superseded one.
superseded_never(s, controller) == FALSE

\* this.activeRequest !== controller
superseded(s, controller) == s.activeRequest # controller

\* Variant: an empty list is shown as ready.
onFulfilled_alwaysReady(s, controller, suggestions) ==
  IF superseded(s, controller)
  THEN s
  ELSE [s EXCEPT !.aiSuggestions = suggestions, !.aiStatus = "ready"]

\* .then((suggestions) => ...)
onFulfilled(s, controller, suggestions) ==
  IF superseded(s, controller)
  THEN s
  ELSE LET s1 == [s EXCEPT !.aiSuggestions = suggestions,
                           !.aiStatus = IF Len(suggestions) # 0 THEN "ready" ELSE "idle"]
       IN IF Len(suggestions) = 0
          THEN [s1 EXCEPT !.aiError = NoResultsMessage]
          ELSE s1

\* Variant: the list shown is kept beside the error.
onRejected_keepSuggestions(s, controller, error) ==
  IF superseded(s, controller)
  THEN s
  ELSE IF error.class = "DOMException" /\ error.name = "AbortError"
  THEN s
  ELSE [s EXCEPT !.aiStatus = "error", !.aiError = error.message]

\* Variant: only an OpenAiError gets to show its own message.
onRejected_fallback(s, controller, error) ==
  IF superseded(s, controller)
  THEN s
  ELSE IF error.class = "DOMException" /\ error.name = "AbortError"
  THEN s
  ELSE LET message ==
             IF error.class = "OpenAiError"
             THEN IF error.code = "insufficient_quota"
                  THEN QuotaMessage
                  ELSE error.message
             ELSE FallbackMessage
       IN [s EXCEPT !.aiStatus = "error", !.aiError = message,
                    !.aiSuggestions = <<>>]

\* .catch((error) => ...)
onRejected(s, controller, error) ==
  IF superseded(s, controller)
  THEN s
  ELSE IF error.class = "DOMException" /\ error.name = "AbortError"
  THEN s
  ELSE LET message ==
             IF error.class = "OpenAiError"
             THEN IF error.code = "insufficient_quota"
                  THEN QuotaMessage
                  ELSE error.message
             ELSE IF error.isError
             THEN error.message
             ELSE FallbackMessage
       IN [s EXCEPT !.aiStatus = "error", !.aiError = message,
                    !.aiSuggestions = <<>>]

\* .finally(() => ...)
onFinally(s, controller) ==
  IF s.activeRequest = controller
  THEN [s EXCEPT !.activeRequest = NoRef]
  ELSE s


updateSearch(s, term) == [s EXCEPT !.searchTerm = term]

\* Variant: a click selects and never deselects.
updateMood_select(s, mood) == [s EXCEPT !.selectedMood = mood]

updateMood(s, mood) ==
  [s EXCEPT !.selectedMood = IF @ = mood THEN Null ELSE mood]

\* The promise chain of runOpenAi once the call of `controller` has settled
\* with `outcome`: then or catch, and finally.
settle(s, controller, outcome) ==
  LET s1 == IF outcome.ok
            THEN onFulfilled(s, controller, outcome.suggestions)
            ELSE onRejected(s, controller, outcome.error)
  IN [onFinally(s1, controller) EXCEPT !.requests = Without(@, controller)]

\* --------------------------------------------------------- display mapper
NoSynopsis == "No synopsis provided."

\* Array.prototype.join
RECURSIVE join(_, _)
join(list, separator) ==
  IF list = << >> THEN ""
  ELSE IF Len(list) = 1 THEN list[1]
  ELSE list[1] \o separator \o join(Tail(list), separator)

\* member ?? fallback
OrDefault(member, fallback) == IF member = Absent THEN fallback ELSE member[1]

\* suggestion.watchReasons ? ... : ... (an array is truthy, empty or not)
hasWatchReasons(suggestion) == suggestion.watchReasons # Absent

\* suggestion.moodFit ? ... : ... (the empty string is falsy)
hasMoodFit(suggestion) == suggestion.moodFit # Absent /\ suggestion.moodFit[1] # ""

toDisplayFromSuggestion(suggestion) ==
  [ title |-> suggestion.title,
    year |-> suggestion.year,
    genres |-> OrDefault(suggestion.genres, << >>),
    overview |->
      IF suggestion.synopsis # Absent THEN suggestion.synopsis[1]
      ELSE IF hasWatchReasons(suggestion) THEN join(suggestion.watchReasons[1], " ")
      ELSE NoSynopsis,
    runtime |-> suggestion.runtimeMinutes,
    whereToWatch |-> OrDefault(suggestion.whereToWatch, << >>),
    watchReasons |->
      IF suggestion.watchReasons # Absent THEN suggestion.watchReasons[1]
      ELSE IF hasMoodFit(suggestion) THEN << suggestion.moodFit[1] >>
      ELSE << >>,
    source |-> "openai" ]

\* computed: aiSuggestions().map(toDisplayFromSuggestion)
displayMovies ==
  [i \in 1..Len(aiSuggestions) |-> toDisplayFromSuggestion(aiSuggestions[i])]

\* computed: displayMovies()[0] ?? null
highlight == IF displayMovies = << >> THEN Null ELSE displayMovies[1]

\* Variant: the supporting list keeps the highlight.
slice_none(list, start) == list

\* Array.prototype.slice(start)
slice(list, start) == SubSeq(list, start + 1, Len(list))

\* computed: displayMovies().slice(1)
supportingMovies == slice(displayMovies, 1)

\* computed: displayMovies().length > 0
isUsingOpenAi == Len(displayMovies) > 0

\* --------------------------------------------------------------- actions
Commit(s) ==
  /\ searchTerm' = s.searchTerm
  /\ selectedMood' = s.selectedMood
  /\ aiStatus' = s.aiStatus
  /\ aiError' = s.aiError
  /\ aiSuggestions' = s.aiSuggestions
  /\ activeRequest' = s.activeRequest
  /\ debounceHandle' = s.debounceHandle
  /\ timers' = s.timers
  /\ requests' = s.requests
  /\ UNCHANGED OPENAI_API_KEY

OutcomeKind(outcome) ==
  IF outcome.ok THEN "fulfilled"
  ELSE IF outcome.error.name = "AbortError" THEN "aborted"
  ELSE "rejected"

\* The component after construction.
Constructed ==
  /\ OPENAI_API_KEY \in Keys
  /\ searchTerm = <<>>
  /\ selectedMood = Null
  /\ aiStatus = "idle"
  /\ aiError = Null
  /\ aiSuggestions = <<>>
  /\ activeRequest = NoRef
  /\ debounceHandle = NoRef
  /\ timers = <<>>
  /\ requests = <<>>
  /\ last = [op |-> "init"]
  /\ cleared = FALSE

\* No session is followed: nothing is counted, no prompt is kept.
NoSession == [inputsLeft |-> 0, sent |-> << >>]

Init == Constructed /\ live = NoSession

\* The user edits the search box; the effect runs in the same task.
UpdateSearch(term) ==
  LET s == aiEffect(Cur, updateSearch(Cur, term))
  IN /\ Commit(s)
     /\ last' = [op |-> "updateSearch",
                 rescheduled |-> /\ DOMAIN timers # {}
                                 /\ DOMAIN s.timers # {}
                                 /\ \A h \in DOMAIN timers :
                                      timers[h].prompt # aiPrompt(s),
                 droppedTimer |-> DOMAIN timers # {} /\ DOMAIN s.timers = {},
                 changed |-> term # searchTerm]
     /\ UNCHANGED cleared

\* The user clicks a mood chip.
UpdateMood(mood) ==
  /\ Commit(aiEffect(Cur, updateMood(Cur, mood)))
  /\ last' = [op |-> "updateMood", mood |-> mood,
              repeats |-> last.op = "updateMood" /\ last.mood = mood,
              startedOn |-> IF last.op = "updateMood" /\ last.mood = mood
                            THEN selectedMood = Null
                            ELSE selectedMood = mood]
  /\ UNCHANGED cleared

\* The user clicks the clear button.
ClearSearch ==
  /\ Commit(aiEffect(Cur, clearSearch(Cur)))
  /\ last' = [op |-> "clearSearch", droppedTimer |-> DOMAIN timers # {}]
  /\ cleared' = (DOMAIN requests # {})

\* The debounce timer `handle` fires: () => this.runOpenAi(prompt, key).
TimerFires(handle) ==
  /\ Cardinality(DOMAIN requests) < MaxInFlight
  /\ Commit(runOpenAi([Cur EXCEPT !.timers = Without(@, handle)],
                      timers[handle].prompt, timers[handle].apiKey))
  /\ last' = [op |-> "runOpenAi", prompt |-> timers[handle].prompt,
              afterBurst |-> last.op = "updateSearch" /\ last.rescheduled]
  /\ cleared' = FALSE

\* The call of `controller` settles with `outcome`.
Settles(controller, outcome) ==
  /\ Commit(settle(Cur, controller, outcome))
  /\ last' = [op |-> "settle",
              kind |-> OutcomeKind(outcome),
              active |-> controller = activeRequest,
              canceled |-> requests[controller].aborted,
              cleared |-> cleared,
              overResults |-> controller = activeRequest /\ aiSuggestions # <<>>]
  /\ cleared' = (cleared /\ DOMAIN requests # {controller})

Next ==
  /\ UNCHANGED live
  /\ \/ \E term \in Texts : UpdateSearch(term)
     \/ \E mood \in MoodTags : UpdateMood(mood)
     \/ ClearSearch
     \/ \E handle \in DOMAIN timers : TimerFires(handle)
     \/ \E controller \in DOMAIN requests :
          \E outcome \in Outcomes(requests[controller].aborted) :
            Settles(controller, outcome)

Spec == Init /\ [][Next]_vars

\* ------------------------------------------ a session that comes to rest
\* The user acts a bounded number of times and then leaves the page alone;
\* the timers and the network go on.
SessionInit ==
  /\ Constructed
  /\ live \in [inputsLeft : 0..MaxInputs, sent : {<< >>}]

\* The shortest query a prompt is made of.
MinQuery == 2

\* What the user types in such a session: the texts of up to one character
\* more than the shortest query.
SessionTexts == UNION {[1..n -> Chars] : n \in 0..(MinQuery + 1)}

UserActs ==
  /\ live.inputsLeft > 0
  /\ live' = [live EXCEPT !.inputsLeft = @ - 1]
  /\ \/ \E term \in SessionTexts : UpdateSearch(term)
     \/ \E mood \in MoodTags : UpdateMood(mood)
     \/ ClearSearch

Dispatches ==
  \E handle \in DOMAIN timers :
    /\ TimerFires(handle)
    /\ live' = [live EXCEPT !.sent = timers[handle].prompt]

Completes ==
  /\ UNCHANGED live
  /\ \E controller \in DOMAIN requests :
       \E outcome \in Outcomes(requests[controller].aborted) :
         Settles(controller, outcome)

SessionNext == UserActs \/ Dispatches \/ Completes

\* setTimeout callbacks run, and fetch settles every call.
Fairness == WF_vars(Dispatches) /\ WF_vars(Completes)

SessionSpec == SessionInit /\ [][SessionNext]_vars /\ Fairness

\* ------------------------------------------------ what the provider sent
\* A suggestion with its optional members absent, present and empty, or
\* present with a value.
Suggestions ==
  { [ Suggestion(1) EXCEPT !.synopsis = sy, !.watchReasons = wr, !.moodFit = mf ] :
      sy \in {Absent, Some(""), Some("A synopsis.")},
      wr \in {Absent, Some(<< >>), Some(<< "Reason one.", "Reason two." >>)},
      mf \in {Absent, Some(""), Some("Fits the mood.")} }

Listing(recommendations) ==
  [type |-> "response", ok |-> TRUE, status |-> 200, valid |-> TRUE,
   content |-> [kind |-> "string",
                text |-> [valid |-> TRUE, isArray |-> TRUE,
                          recommendations |-> recommendations]]]

\* What fetch settles with, with the longer arrays and the fuller records.
SessionTransports(aborted) ==
  Transports(aborted)
  \cup {Listing(Recommendations(n)) : n \in (MaxRecs + 1)..MaxListed}
  \cup {Listing(<< suggestion >>) : suggestion \in Suggestions}

\* The call of `controller` settles; the history keeps what fetch settled with.
Responds(controller, transport) ==
  LET outcome == suggestMovies(transport)
  IN /\ Commit(settle(Cur, controller, outcome))
     /\ last' = [op |-> "settle",
                 kind |-> OutcomeKind(outcome),
                 active |-> controller = activeRequest,
                 canceled |-> requests[controller].aborted,
                 cleared |-> cleared,
                 overResults |-> controller = activeRequest /\ aiSuggestions # <<>>,
                 transport |-> IF controller = activeRequest
                               THEN transport
                               ELSE [type |-> "unobserved"]]
     /\ cleared' = (cleared /\ DOMAIN requests # {controller})
     /\ UNCHANGED live

\* The user edits the search box, as often as the session allows.
Types ==
  /\ live.inputsLeft > 0
  /\ live' = [live EXCEPT !.inputsLeft = @ - 1]
  /\ \E term \in Texts : UpdateSearch(term)

ProviderNext ==
  \/ Types
  \/ Dispatches
  \/ \E controller \in DOMAIN requests :
       \E transport \in SessionTransports(requests[controller].aborted) :
         Responds(controller, transport)

ProviderSpec == SessionInit /\ [][ProviderNext]_vars


\* ---------------------------------------------------------------- claims
\* What the view and a later completion observe of a request.
Observable == << aiStatus, aiError, aiSuggestions, activeRequest >>

Query == trim(searchTerm)

KeyBlank == trim(OPENAI_API_KEY) = <<>>

\* C1: when a call whose cancellation token was triggered (by a newer
\* dispatch or any other cancellation) settles, whatever it settles with,
\* status, error message, suggestion list and active-request slot keep
\* their values.
C1_CanceledResolutionChangesNothing ==
  [][(last'.op = "settle" /\ last'.canceled) => UNCHANGED Observable]_vars

\* C1 witness: a canceled call has resolved successfully (the transport did
\* not honor the cancellation) while a newer request is the active one.
C1_Witness ==
  /\ last.op = "settle" /\ last.canceled /\ last.kind = "fulfilled"
  /\ activeRequest # NoRef /\ aiStatus = "loading"

\* C2: when a debounce timer fires it is the only pending timer, and the
\* request it dispatches carries the prompt derived from the query and mood
\* of that moment: a burst of setQuery calls dispatches at most one request,
\* for the final query, and none for an intermediate one.
C2_OnlyFinalQueryDispatched ==
  [][last'.op = "runOpenAi" =>
       /\ Cardinality(DOMAIN timers) = 1
       /\ DOMAIN timers' = {}
       /\ last'.prompt = aiPrompt(Cur)
       /\ last'.prompt # <<>>]_vars

\* C2 witness: a request was dispatched right after a setQuery that replaced
\* the pending timer of a query with another prompt.
C2_Witness == last.op = "runOpenAi" /\ last.afterBurst

\* C3: every unsettled call other than the one in the active-request slot has
\* had its cancellation token triggered, and the call in the slot is an
\* unsettled one whose token is not triggered.
C3_AtMostOneActive ==
  /\ \A c \in DOMAIN requests : c # activeRequest => requests[c].aborted
  /\ activeRequest # NoRef =>
       activeRequest \in DOMAIN requests /\ ~requests[activeRequest].aborted

\* C3 witness: a superseded call is still unsettled while a newer one is active.
C3_Witness ==
  /\ activeRequest # NoRef
  /\ \E c \in DOMAIN requests : c # activeRequest

\* C4 as stated: the error message is non-null only when status is `error`.
C4_ErrorOnlyWhenStatusError == aiError # Null => aiStatus = "error"

\* C4 amended: the error message is non-null only when status is `error`, or
\* when status is `idle`, the list is empty and the message is the fixed
\* no-matches message.
C4_ErrorOnlyWhenErrorOrNoMatches ==
  aiError # Null =>
    \/ aiStatus = "error"
    \/ aiStatus = "idle" /\ aiError = NoResultsMessage /\ aiSuggestions = <<>>

\* C4 witness: the active request resolved with an empty list.
C4_Witness ==
  /\ last.op = "settle" /\ last.active /\ last.kind = "fulfilled"
  /\ aiStatus = "idle" /\ aiError = NoResultsMessage

\* C5: if status is `ready`, the suggestion list is non-empty.
C5_ReadyHasSuggestions == aiStatus = "ready" => aiSuggestions # <<>>

\* C5 witness: the active request resolved and status is `ready`.
C5_Witness == last.op = "settle" /\ last.active /\ aiStatus = "ready"


\* C6: in every state a non-null error message comes with an empty suggestion
\* list, and after the active request has failed with anything but a
\* cancellation the error message is non-null and the list is empty.
C6_NoResultsBesideError ==
  /\ aiError # Null => aiSuggestions = <<>>
  /\ (last.op = "settle" /\ last.active /\ last.kind = "rejected") =>
       aiError # Null /\ aiSuggestions = <<>>

\* C6 witness: the active request failed while the results of an earlier
\* request were on display.
C6_Witness ==
  /\ last.op = "settle" /\ last.active /\ last.kind = "rejected"
  /\ last.overResults

\* C7: no debounce timer is pending while the trimmed query is shorter than
\* 2 characters, and right after a dispatch the trimmed query has at least 2.
C7_NoDispatchBelowThreshold ==
  /\ DOMAIN timers # {} => Len(Query) >= 2
  /\ last.op = "runOpenAi" => Len(Query) >= 2

\* C7 witness: a setQuery has shortened the query below the threshold while
\* the timer of a longer query was pending, and the timer is gone.
C7_Witness ==
  /\ last.op = "updateSearch" /\ last.droppedTimer
  /\ Len(Query) = 1 /\ DOMAIN timers = {}

\* C8 as stated: a setQuery whose text trims to fewer than 2 characters
\* leaves the suggestion list and the status as they were.
C8_ShortQueryLeavesResults ==
  [][(last'.op = "updateSearch" /\ Len(Query') < 2) =>
       UNCHANGED << aiSuggestions, aiStatus >>]_vars

\* C8 as stated, for a configured credential only: violated as well, by a
\* setQuery to a text that trims to nothing while results are on display.
C8_ShortQueryLeavesResultsWithKey ==
  [][(last'.op = "updateSearch" /\ Len(Query') < 2 /\ ~KeyBlank) =>
       UNCHANGED << aiSuggestions, aiStatus >>]_vars

\* C8 amended: with a credential configured, a setQuery whose text trims to
\* exactly 1 character leaves the suggestion list and the status as they
\* were (a text that trims to nothing empties the list and sets `idle`;
\* without a credential a 1-character query sets `error`).
C8_OneCharQueryLeavesResults ==
  [][(last'.op = "updateSearch" /\ Len(Query') = 1 /\ ~KeyBlank) =>
       UNCHANGED << aiSuggestions, aiStatus >>]_vars

\* C8 witness: a setQuery has set a 1-character query, changing the text,
\* while results are on display.
C8_Witness ==
  /\ last.op = "updateSearch" /\ last.changed /\ Len(Query) = 1 /\ ~KeyBlank
  /\ aiStatus = "ready" /\ aiSuggestions # <<>>

\* C9: after clear() the query and the suggestion list are empty, status is
\* `idle`, the error message is null and no request is active; and when a
\* call that was in flight at a clear() settles later, status, error message,
\* suggestion list, active-request slot and query keep their values.
C9_ClearResets ==
  [][/\ last'.op = "clearSearch" =>
          /\ searchTerm' = <<>> /\ aiSuggestions' = <<>>
          /\ aiStatus' = "idle" /\ aiError' = Null
          /\ activeRequest' = NoRef
          /\ \A c \in DOMAIN requests' : requests'[c].aborted
     /\ (last'.op = "settle" /\ last'.cleared) =>
          UNCHANGED << Observable, searchTerm >>]_vars

\* C9 witness: the request that was loading when clear() ran has resolved
\* successfully afterwards, and the state is still the cleared one.
C9_Witness ==
  /\ last.op = "settle" /\ last.cleared /\ last.kind = "fulfilled"
  /\ aiStatus = "idle" /\ aiSuggestions = <<>> /\ searchTerm = <<>>

\* C10: with a blank credential no timer is ever pending and no network call
\* is ever made, and right after a setQuery to a text that is not blank the
\* status is `error` with the configuration message, the suggestion list is
\* empty and no request is active.
C10_BlankCredential ==
  KeyBlank =>
    /\ DOMAIN timers = {} /\ DOMAIN requests = {}
    /\ last.op # "runOpenAi"
    /\ (last.op = "updateSearch" /\ Query # <<>>) =>
         /\ aiStatus = "error" /\ aiError = MissingKeyMessage
         /\ aiSuggestions = <<>> /\ activeRequest = NoRef

\* C10 witness: with a blank credential the query was set to a text of at
\* least 2 characters.
C10_Witness ==
  /\ KeyBlank /\ last.op = "updateSearch" /\ last.changed /\ Len(Query) >= 2
  /\ aiStatus = "error"

\* The active request has settled, and the history holds what fetch gave it.
ActiveSettled == last.op = "settle" /\ last.active

\* A response with a non-success status.
Failed(transport) == transport.type = "response" /\ ~transport.ok

\* The body of a failed response parses as { error: {...} }.
Structured(transport) ==
  transport.body.readable /\ transport.body.valid /\ transport.body.hasError

\* C11: when the active request fails with a non-success HTTP status and
\* the error body carries the code insufficient_quota, the status is error,
\* the suggestion list is empty and the error message is the fixed
\* quota message, whatever message the provider sent.
C11_QuotaMessage ==
  ( /\ ActiveSettled
    /\ Failed(last.transport)
    /\ Structured(last.transport)
    /\ last.transport.body.code = "insufficient_quota" )
  => /\ aiStatus = "error"
     /\ aiSuggestions = << >>
     /\ aiError = QuotaMessage

\* C11 witness: a request made over displayed results has failed with the
\* quota code and a message of the provider's own.
C11_Witness ==
  /\ ActiveSettled /\ last.overResults
  /\ Failed(last.transport)
  /\ Structured(last.transport)
  /\ last.transport.body.code = "insufficient_quota"
  /\ last.transport.body.message = "provider message"
  /\ aiError = QuotaMessage

\* A success response whose content parses to a recommendations array.
Lists(transport) ==
  /\ transport.type = "response" /\ transport.ok /\ transport.valid
  /\ ~extractJson(transport.content).isNull
  /\ extractJson(transport.content).isArray

\* The recommendations array of such a response.
Provided(transport) == extractJson(transport.content).recommendations

\* C12: the status becomes loading only when the debounce timer fires; and
\* when the provider answers the active request with n suggestions,
\* 1 <= n <= 5, the status becomes ready, the display list has exactly the
\* n entries in the provider's order, highlight is its first entry, the
\* supporting movies are the entries after it, and isUsingOpenAi is true.
C12_ListedInProviderOrder ==
  [][ /\ (aiStatus # "loading" /\ aiStatus' = "loading") => last'.op = "runOpenAi"
      /\ ( /\ last'.op = "settle" /\ last'.active
           /\ Lists(last'.transport)
           /\ Len(Provided(last'.transport)) \in 1..SliceLimit )
         => LET provided == Provided(last'.transport)
                n == Len(provided)
            IN /\ aiStatus = "loading" /\ aiStatus' = "ready"
               /\ Len(displayMovies') = n
               /\ \A i \in 1..n :
                    displayMovies'[i] = toDisplayFromSuggestion(provided[i])
               /\ highlight' = toDisplayFromSuggestion(provided[1])
               /\ supportingMovies' =
                    [i \in 1..(n - 1) |-> toDisplayFromSuggestion(provided[i + 1])]
               /\ isUsingOpenAi' ]_vars

\* C12 witness: with a credential and a query of two characters or more,
\* the provider has answered with five suggestions, which are on display:
\* the highlight and four supporting movies.
C12_Witness ==
  /\ ActiveSettled /\ Lists(last.transport)
  /\ Len(Provided(last.transport)) = SliceLimit
  /\ ~KeyBlank /\ Len(Query) >= 2
  /\ aiStatus = "ready"
  /\ highlight = displayMovies[1]
  /\ Len(supportingMovies) = SliceLimit - 1

\* C13 as stated: from any mood selection, updateMood(tag) twice in
\* succession leaves no mood selected.
C13_TwiceLeavesNone ==
  (last.op = "updateMood" /\ last.repeats) => selectedMood = Null

\* C13: updateMood(tag) twice in succession leaves no mood selected when
\* tag was not the selected mood before the two calls, and leaves tag
\* selected when it was.
C13_TwiceTogglesBack ==
  (last.op = "updateMood" /\ last.repeats)
  => selectedMood = (IF last.startedOn THEN last.mood ELSE Null)

\* C13 witness: the same chip was clicked twice, starting from a selection
\* that was not this mood, and none is selected.
C13_Witness ==
  /\ last.op = "updateMood" /\ last.repeats /\ ~last.startedOn
  /\ selectedMood = Null

\* fetch rejected for the network, or response.json() threw on the body:
\* a failure that is neither a cancellation nor an OpenAiError.
PlainFailure(transport) ==
  \/ transport.type = "TypeError"
  \/ transport.type = "response" /\ transport.ok /\ ~transport.valid

HasMessage(transport) ==
  Structured(transport) /\ ~Falsy(transport.body.message)

\* C15 as stated: on a non-success status the OpenAiError carries the
\* structured body's error message when one can be read, and the
\* status-coded message otherwise.
C15_BodyMessageOrStatusMessage ==
  (ActiveSettled /\ Failed(last.transport))
  => LET error == suggestMovies(last.transport).error
     IN /\ error.class = "OpenAiError"
        /\ error.message = IF HasMessage(last.transport)
                            THEN last.transport.body.message
                            ELSE StatusMessage(last.transport.status)

\* C15: on a non-success status the OpenAiError carries the structured
\* body's error message when a non-empty one can be read; else the text of
\* the body when the body can be read and is not empty; else the
\* status-coded message. Unless the code is insufficient_quota, this is the
\* error message shown.
C15_BodyMessageOrTextOrStatusMessage ==
  (ActiveSettled /\ Failed(last.transport))
  => LET error == suggestMovies(last.transport).error
         body == last.transport.body
     IN /\ error.class = "OpenAiError"
        /\ error.message =
             IF HasMessage(last.transport) THEN body.message
             ELSE IF body.readable /\ body.text # "" THEN body.text
             ELSE StatusMessage(last.transport.status)
        /\ aiError = IF error.code = "insufficient_quota"
                     THEN QuotaMessage
                     ELSE error.message

\* C15 witness: a non-success response with a body that is not JSON has
\* failed the active request, and the text of the body is shown.
C15_Witness ==
  /\ ActiveSettled /\ Failed(last.transport)
  /\ ~last.transport.body.valid
  /\ last.transport.body.text = "Bad Gateway"
  /\ aiError = "Bad Gateway"

\* C16 as stated: for every suggestion on display, each optional member
\* absent, present and empty, or present with a value, the overview is the
\* synopsis if present; otherwise the watch reasons joined by a space if
\* any exist; otherwise the placeholder; so it is never empty.
C16_OverviewAlwaysPopulated ==
  \A i \in 1..Len(aiSuggestions) :
    LET suggestion == aiSuggestions[i]
        overview == displayMovies[i].overview
    IN /\ overview =
            IF suggestion.synopsis # Absent THEN suggestion.synopsis[1]
            ELSE IF suggestion.watchReasons # Absent
                    /\ suggestion.watchReasons[1] # << >>
            THEN join(suggestion.watchReasons[1], " ")
            ELSE NoSynopsis
       /\ overview # ""

\* C17 as stated: for every suggestion on display, the watch reasons are
\* the suggestion's own if present and non-empty; otherwise the list of the
\* moodFit alone if it is present (an empty moodFit taken for none, as the
\* code takes it); otherwise the empty list.
C17_WatchReasonsOrMoodFit ==
  \A i \in 1..Len(aiSuggestions) :
    LET suggestion == aiSuggestions[i]
    IN displayMovies[i].watchReasons =
         IF suggestion.watchReasons # Absent /\ suggestion.watchReasons[1] # << >>
         THEN suggestion.watchReasons[1]
         ELSE IF suggestion.moodFit # Absent /\ suggestion.moodFit[1] # ""
         THEN << suggestion.moodFit[1] >>
         ELSE << >>

\* C18: with a credential, an edit of the query to a text of trimmed
\* length one changes none of status, error message, suggestion list and
\* active-request slot, and cancels no call: only the pending timer goes.
\* A request in flight stays the active one, and when it settles while the
\* query is still that short its result is applied: the list and ready, the
\* no-matches message and idle, or an error.
C18_OneCharQueryKeepsRequest ==
  [][ /\ (last'.op = "updateSearch" /\ ~KeyBlank /\ Len(Query') = 1)
         => /\ UNCHANGED Observable
            /\ requests' = requests
            /\ DOMAIN timers' = {}
      /\ (last'.op = "settle" /\ last'.active /\ ~KeyBlank /\ Len(Query) = 1)
         => /\ activeRequest' = NoRef
            /\ last'.kind = "fulfilled"
                 => /\ aiStatus' = (IF aiSuggestions' # << >> THEN "ready" ELSE "idle")
                    /\ aiError' = (IF aiSuggestions' # << >> THEN aiError
                                   ELSE NoResultsMessage)
            /\ last'.kind # "fulfilled"
                 => /\ aiStatus' = "error"
                    /\ aiError' # Null
                    /\ aiSuggestions' = << >> ]_vars

\* C18 witness: the query was cut to one character while a request was in
\* flight, and the request has delivered its suggestions.
C18_Witness ==
  /\ last.op = "settle" /\ last.active /\ last.kind = "fulfilled"
  /\ ~KeyBlank /\ Len(Query) = 1
  /\ aiStatus = "ready" /\ aiSuggestions # << >>

Rested == live.inputsLeft = 0 /\ ~KeyBlank /\ Len(Query) >= 2

\* The prompt dispatched last is the one of the query and mood on screen,
\* nothing is pending or active, and the status is not loading.
Answered ==
  /\ live.sent = aiPrompt(Cur)
  /\ DOMAIN timers = {}
  /\ activeRequest = NoRef
  /\ aiStatus \in {"ready", "idle", "error"}

\* C20: whenever the status is loading, the slot holds a request that is in
\* flight and not canceled; the settling of the active request sets the
\* status by its outcome (ready, idle or error); and once the user has
\* stopped with a credential and a trimmed query of two characters or more,
\* timers firing and calls settling, a request with the prompt of the final
\* query and mood is dispatched and the status leaves loading for ready,
\* idle or error.
C20_LoadingNeverStuck ==
  /\ [](aiStatus = "loading"
          => /\ activeRequest \in DOMAIN requests
             /\ ~requests[activeRequest].aborted)
  /\ []((last.op = "settle" /\ last.active)
          => aiStatus = (IF last.kind # "fulfilled" THEN "error"
                         ELSE IF aiSuggestions # << >> THEN "ready"
                         ELSE "idle"))
  /\ (Rested /\ DOMAIN timers # {})
       ~> (last.op = "runOpenAi" /\ last.prompt = aiPrompt(Cur) /\ aiStatus = "loading")
  /\ Rested ~> Answered

\* C20 witness: the user has stopped on a query of two characters or more,
\* the request with its prompt has been answered, and the status is ready.
C20_Witness ==
  /\ Rested /\ Answered
  /\ last.op = "settle" /\ last.active
  /\ aiStatus = "ready"

====
